---- MODULE Spec2Model ----
(***************************************************************************)
(* The two sentence-embedding scripts of the repository as state machines: *)
(*   create_embeddings.py  (the Batch Embedder,                            *)
(*                          create_and_save_embeddings)                    *)
(*   embed_query.py        (the Query Embedder, embed_query)               *)
(* One behaviour is one run of one script.  The file system, the process   *)
(* streams and the SentenceTransformer library are the environment: a file *)
(* is modelled by the JSON value its text denotes, an embedding vector by  *)
(* the text and batch position the library computed it for.                *)
(***************************************************************************)
EXTENDS Integers, Sequences, FiniteSets, TLC

\* ------------------------------------------------------------------ bounds

\* Longest `papers` array of an input document.
MaxPapers == 2

\* Most command-line arguments after the script name.
MaxArgs == 2

\* ------------------------------------------------------- Python/JSON values

\* A value is a record tagged by its type in field t.
JNull == [t |-> "null"]

JStr(s) == [t |-> "str", str |-> s]

JNum(n) == [t |-> "num", num |-> n]

JList(items) == [t |-> "list", items |-> items]

JObject(members) == [t |-> "object", members |-> members]

\* A local variable that no statement has assigned yet.
Unbound == [t |-> "unbound"]

\* The empty dict.
EmptyDict == [k \in {} |-> JNull]

\* Truthy with an empty list taken for true (as `papers is not None` would).
Truthy_EmptyListTrue(v) ==
    CASE v.t = "null" -> FALSE
      [] v.t = "str"  -> v.str # ""
      [] v.t = "list" -> TRUE
      [] OTHER        -> TRUE

\* Python truthiness of a value (`not papers`, `a or b`).
Truthy(v) ==
    CASE v.t = "null" -> FALSE
      [] v.t = "str"  -> v.str # ""
      [] v.t = "list" -> v.items # <<>>
      [] OTHER        -> TRUE

\* dict.get(key, default); dict.get(key) is DictGet(d, key, JNull).
DictGet(d, key, default) == IF key \in DOMAIN d THEN d[key] ELSE default

\* DictSet building a fresh dict that holds the new key alone.
DictSet_DropOthers(d, key, value) == [k \in {key} |-> value]

\* d[key] = value on a dict: the key is added, or its old value replaced.
DictSet(d, key, value) ==
    [k \in DOMAIN d \cup {key} |-> IF k = key THEN value ELSE d[k]]

\* -------------------------------------------------- the model provider

MODEL_NAME == "all-MiniLM-L6-v2"

\* The vector SentenceTransformer.encode computes for `text` at position `pos`
\* of its input (0 for a single string), as a numpy array.
ProviderVector(text, pos, normalize) ==
    [t |-> "ndarray", of |-> text, row |-> pos, unit |-> normalize]

\* model.encode(sentences, normalize_embeddings=normalize): one row per text of
\* a list, in the order of the list; one vector for a single string.
EncodeResult(sentences, normalize) ==
    IF sentences.t = "list"
    THEN [t |-> "ndarray2d",
          rows |-> [j \in 1..Len(sentences.items) |->
                      ProviderVector(sentences.items[j], j, normalize)]]
    ELSE ProviderVector(sentences, 0, normalize)

\* ndarray.tolist(): the same numbers in a Python list.
ToList(v) == [t |-> "list", of |-> v.of, row |-> v.row, unit |-> v.unit]

\* ------------------------------------------------------------------ files

\* No file at the path.
NoFile == [kind |-> "missing"]

\* A file whose text is not JSON.
MalformedFile == [kind |-> "malformed"]

\* A file opened with mode 'w' and not (yet) written to its end: a prefix,
\* possibly empty, of the serialized document.
TruncatedFile == [kind |-> "truncated"]

\* A file whose text is the JSON document `value`.
JsonFile(value) == [kind |-> "json", value |-> value]

\* ------------------------------------------------------------- input space

Absent == [t |-> "absent"]

TitleChoices == {Absent, JNull, JStr(""), JStr("T")}

AbstractChoices == {Absent, JNull, JStr(""), JStr(" "), JStr("A")}

\* An embedding attached by an earlier run.
StaleEmbedding == [t |-> "list", of |-> JStr("stale"), row |-> 0, unit |-> TRUE]

\* A paper object with the given title and abstract (Absent: no such key).
Paper(title, abstract) ==
    [k \in (IF title = Absent THEN {} ELSE {"title"})
           \cup (IF abstract = Absent THEN {} ELSE {"abstract"}) |->
        IF k = "title" THEN title ELSE abstract]

ExtraFields ==
    { [year |-> JNum(2020)],
      [abstract_embedding |-> StaleEmbedding],
      [year |-> JNum(2020), abstract_embedding |-> StaleEmbedding] }

PaperRecords ==
    { Paper(ti, ab) : ti \in TitleChoices, ab \in AbstractChoices }
    \cup { Paper(JStr("T"), ab) @@ x : ab \in {Absent, JStr("A")}, x \in ExtraFields }

PaperSeqs(n) == UNION { [1..m -> PaperRecords] : m \in 0..n }

\* The values a document may hold under "papers".
PapersValues == {JNull} \cup { JList(s) : s \in PaperSeqs(MaxPapers) }

InputDocuments ==
    { JObject([papers |-> p]) : p \in PapersValues }
    \cup { JObject([papers |-> p, meta |-> JStr("acl")]) :
             p \in { v \in PapersValues : v.t = "list" => Len(v.items) <= 1 } }
    \cup { JObject(EmptyDict), JObject([meta |-> JStr("acl")]) }
    \cup { JList(<<>>), JNull }

InputFiles == {NoFile, MalformedFile} \cup { JsonFile(d) : d \in InputDocuments }

\* What the output path holds before the run.
OldOutput == JsonFile(JObject([papers |-> JList(<<>>), note |-> JStr("old")]))

QueryArgs == {"", "graph ranking", "semantic search"}

ArgLists == UNION { [1..m -> QueryArgs] : m \in 0..MaxArgs }

\* ------------------------------------------------------------------ state

VARIABLES
    script,       \* which script this run executes
    pc,           \* the statement the run is at; "done" once the process ended
    argv,         \* sys.argv; argv[1] here is Python's sys.argv[0]
    inFile,       \* content of data/processed/papers.json
    outFile,      \* content of data/processed/papers_with_embeddings.json
    outBefore,    \* outFile as it was when the run started
    outOpens,     \* how many times the run opened the output path for writing
    papers,       \* local `papers`
    model,        \* local `model`
    abstracts,    \* local `abstracts`
    embeddings,   \* local `embeddings` / `embedding`
    i,            \* loop index of line 44 (1-based)
    query,        \* local `query`
    stdout,       \* lines written to standard output
    stderr,       \* lines written to the error stream
    exitStatus,   \* process exit status; -1 while running
    raised,       \* the uncaught exception that ended the run, or "none"
    encodeCalls   \* the calls of model.encode made so far, with their arguments

vars == << script, pc, argv, inFile, outFile, outBefore, outOpens, papers, model,
           abstracts, embeddings, i, query, stdout, stderr, exitStatus, raised,
           encodeCalls >>

files == << inFile, outFile, outBefore, outOpens >>

locals == << papers, model, abstracts, embeddings, i, query >>

\* A printed line: the literal text and the interpolated value.
Line(text, arg) == [text |-> text, arg |-> arg]

INPUT_PATH == "data/processed/papers.json"

OUTPUT_PATH == "data/processed/papers_with_embeddings.json"

Init ==
    /\ script \in {"create_embeddings", "embed_query"}
    /\ pc = IF script = "create_embeddings" THEN "load" ELSE "q_args"
    /\ argv \in IF script = "create_embeddings"
                THEN { <<"create_embeddings.py">> }
                ELSE { <<"embed_query.py">> \o a : a \in ArgLists }
    /\ inFile \in IF script = "create_embeddings" THEN InputFiles ELSE {NoFile}
    /\ outFile \in IF script = "create_embeddings" THEN {NoFile, OldOutput} ELSE {NoFile}
    /\ outBefore = outFile
    /\ outOpens = 0
    /\ papers = Unbound
    /\ model = Unbound
    /\ abstracts = Unbound
    /\ embeddings = Unbound
    /\ i = 0
    /\ query = Unbound
    /\ stdout = <<>>
    /\ stderr = <<>>
    /\ exitStatus = -1
    /\ raised = "none"
    /\ encodeCalls = <<>>

\* ------------------------------------------------------- process endings

\* The function returns and the script ends: exit status 0.
Return ==
    /\ pc' = "done"
    /\ exitStatus' = 0
    /\ UNCHANGED << raised, stderr >>

\* An exception nothing catches: traceback on the error stream, exit status 1.
Raise(exc) ==
    /\ pc' = "done"
    /\ exitStatus' = 1
    /\ raised' = exc
    /\ stderr' = Append(stderr, Line("Traceback (most recent call last)", exc))

\* ------------------------------------- create_embeddings.py: the Batch Embedder

\* Line 29: paper.get('abstract') or paper.get('title', '').
SelectText(paper) ==
    LET abstract == DictGet(paper, "abstract", JNull)
    IN  IF Truthy(abstract) THEN abstract ELSE DictGet(paper, "title", JStr(""))

\* AttachedRow handing every record the first row.
AttachedRow_First(embs, k) == embs.rows[1]

\* Line 45: the row of `embeddings` that record k receives.
AttachedRow(embs, k) == embs.rows[k]

\* OutputData keeping only the records that carry an abstract.
OutputData_OnlyWithAbstract(ps) ==
    JObject([papers |-> JList(SelectSeq(ps.items, LAMBDA p : "abstract" \in DOMAIN p))])

\* Line 47: output_data = {"papers": papers}.
OutputData(ps) == JObject([papers |-> ps])

\* json.dump accepts dicts, lists, strings, numbers and null, not numpy arrays.
Serializable(ps) ==
    \A k \in 1..Len(ps.items) :
        \A f \in DOMAIN ps.items[k] : ps.items[k][f].t # "ndarray"

\* LoadInput whose except clause prints and does not return: line 20 then
\* reads the unassigned `papers`.
LoadInput_NoReturn ==
    /\ script = "create_embeddings"
    /\ pc = "load"
    /\ \/ /\ inFile.kind = "missing"
          /\ stdout' = Append(stdout, Line("Error: Input file not found at", INPUT_PATH))
          /\ Raise("UnboundLocalError")
          /\ UNCHANGED papers
       \/ /\ inFile.kind = "malformed"
          /\ Raise("JSONDecodeError")
          /\ UNCHANGED << papers, stdout >>
       \/ /\ inFile.kind = "json"
          /\ inFile.value.t # "object"
          /\ Raise("AttributeError")
          /\ UNCHANGED << papers, stdout >>
       \/ /\ inFile.kind = "json"
          /\ inFile.value.t = "object"
          /\ papers' = DictGet(inFile.value.members, "papers", JList(<<>>))
          /\ pc' = "check"
          /\ UNCHANGED << stdout, stderr, exitStatus, raised >>
    /\ UNCHANGED << script, argv, files, model, abstracts, embeddings, i, query,
                    encodeCalls >>

\* Lines 13-18: open and parse the input, take its "papers".
LoadInput ==
    /\ script = "create_embeddings"
    /\ pc = "load"
    /\ \/ /\ inFile.kind = "missing"                     \* FileNotFoundError, caught
          /\ stdout' = Append(stdout, Line("Error: Input file not found at", INPUT_PATH))
          /\ Return
          /\ UNCHANGED papers
       \/ /\ inFile.kind = "malformed"                   \* json.load raises
          /\ Raise("JSONDecodeError")
          /\ UNCHANGED << papers, stdout >>
       \/ /\ inFile.kind = "json"
          /\ inFile.value.t # "object"                   \* no .get on list, None
          /\ Raise("AttributeError")
          /\ UNCHANGED << papers, stdout >>
       \/ /\ inFile.kind = "json"
          /\ inFile.value.t = "object"
          /\ papers' = DictGet(inFile.value.members, "papers", JList(<<>>))
          /\ pc' = "check"
          /\ UNCHANGED << stdout, stderr, exitStatus, raised >>
    /\ UNCHANGED << script, argv, files, model, abstracts, embeddings, i, query,
                    encodeCalls >>

\* Lines 20-24: give up on an empty collection, else announce the model.
CheckPapers ==
    /\ script = "create_embeddings"
    /\ pc = "check"
    /\ IF ~Truthy(papers)
       THEN /\ stdout' = Append(stdout, Line("Error: No papers found in the input file.", ""))
            /\ Return
       ELSE /\ stdout' = Append(stdout,
                           Line("Initializing sentence transformer model:", MODEL_NAME))
            /\ pc' = "init_model"
            /\ UNCHANGED << stderr, exitStatus, raised >>
    /\ UNCHANGED << script, argv, files, locals, encodeCalls >>

\* Line 26: model = SentenceTransformer(MODEL_NAME); loading may fail.
InitModel ==
    /\ script = "create_embeddings"
    /\ pc = "init_model"
    /\ \/ /\ model' = [t |-> "model", name |-> MODEL_NAME]
          /\ pc' = "select"
          /\ UNCHANGED << stderr, exitStatus, raised >>
       \/ /\ Raise("OSError")
          /\ UNCHANGED model
    /\ UNCHANGED << script, argv, files, papers, abstracts, embeddings, i, query,
                    stdout, encodeCalls >>

\* Lines 28-33: one text per record, in the order of the records.
SelectTexts ==
    /\ script = "create_embeddings"
    /\ pc = "select"
    /\ abstracts' = JList([k \in 1..Len(papers.items) |-> SelectText(papers.items[k])])
    /\ stdout' = Append(stdout, Line("Generating embeddings for {} abstracts",
                                     ToString(Len(papers.items))))
    /\ pc' = "encode"
    /\ UNCHANGED << script, argv, files, papers, model, embeddings, i, query,
                    stderr, exitStatus, raised, encodeCalls >>

\* Lines 36-42: the batched call of the model; it returns or raises.
Encode ==
    /\ script = "create_embeddings"
    /\ pc = "encode"
    /\ encodeCalls' = Append(encodeCalls,
                             [sentences |-> abstracts, normalize_embeddings |-> TRUE])
    /\ \/ /\ embeddings' = EncodeResult(abstracts, TRUE)
          /\ stdout' = Append(stdout, Line("Embeddings generated successfully.", ""))
          /\ pc' = IF abstracts.items = <<>> THEN "save" ELSE "attach"
          /\ i' = 1
          /\ UNCHANGED << stderr, exitStatus, raised >>
       \/ /\ Raise("RuntimeError")
          /\ UNCHANGED << embeddings, stdout, i >>
    /\ UNCHANGED << script, argv, files, papers, model, abstracts, query >>

\* AttachEmbedding whose loop ends after its first iteration.
AttachEmbedding_StopsEarly ==
    /\ script = "create_embeddings"
    /\ pc = "attach"
    /\ i <= Len(papers.items)
    /\ papers' = [papers EXCEPT !.items[i] =
                    DictSet(@, "abstract_embedding", ToList(embeddings.rows[i]))]
    /\ i' = i + 1
    /\ pc' = "save"
    /\ UNCHANGED << script, argv, files, model, abstracts, embeddings, query, stdout,
                    stderr, exitStatus, raised, encodeCalls >>

\* Lines 44-45: one iteration of the loop; after the last one, line 47.
AttachEmbedding ==
    /\ script = "create_embeddings"
    /\ pc = "attach"
    /\ i <= Len(papers.items)
    /\ papers' = [papers EXCEPT !.items[i] =
                    DictSet(@, "abstract_embedding", ToList(AttachedRow(embeddings, i)))]
    /\ i' = i + 1
    /\ pc' = IF i = Len(papers.items) THEN "save" ELSE "attach"
    /\ UNCHANGED << script, argv, files, model, abstracts, embeddings, query, stdout,
                    stderr, exitStatus, raised, encodeCalls >>

\* Lines 47-50: announce the save and open the output path with mode 'w',
\* which empties the file; the open may fail (no such directory, no permission).
OpenOutput ==
    /\ script = "create_embeddings"
    /\ pc = "save"
    /\ stdout' = Append(stdout, Line("Saving augmented data with embeddings to:",
                                     OUTPUT_PATH))
    /\ \/ /\ outFile' = TruncatedFile
          /\ outOpens' = outOpens + 1
          /\ pc' = "dump"
          /\ UNCHANGED << stderr, exitStatus, raised >>
       \/ /\ Raise("OSError")
          /\ UNCHANGED << outFile, outOpens >>
    /\ UNCHANGED << script, argv, inFile, outBefore, locals, encodeCalls >>

\* Line 51: json.dump streams the document into the open file; a failed write
\* (full disk, I/O error) leaves what was written so far.
DumpOutput ==
    /\ script = "create_embeddings"
    /\ pc = "dump"
    /\ \/ /\ Serializable(papers)
          /\ outFile' = JsonFile(OutputData(papers))
          /\ Return
       \/ /\ outFile' = TruncatedFile
          /\ Raise("OSError")
    /\ UNCHANGED << script, argv, inFile, outBefore, outOpens, locals, stdout,
                    encodeCalls >>

\* --------------------------------------------- embed_query.py: the Query Embedder

\* CheckArgs printing its complaint without file=sys.stderr.
CheckArgs_PrintStdout ==
    /\ script = "embed_query"
    /\ pc = "q_args"
    /\ IF Len(argv) < 2
       THEN /\ stdout' = Append(stdout,
                  Line("Error: No query provided. Please pass the query as an argument.", ""))
            /\ pc' = "done"
            /\ exitStatus' = 1
            /\ UNCHANGED << query, stderr >>
       ELSE /\ query' = JStr(argv[2])
            /\ pc' = "q_init_model"
            /\ UNCHANGED << stdout, stderr, exitStatus >>
    /\ UNCHANGED << script, argv, files, papers, model, abstracts, embeddings, i,
                    raised, encodeCalls >>

\* CheckArgs taking the last argument (sys.argv[-1]) for the query.
CheckArgs_LastArg ==
    /\ script = "embed_query"
    /\ pc = "q_args"
    /\ IF Len(argv) < 2
       THEN /\ stderr' = Append(stderr,
                  Line("Error: No query provided. Please pass the query as an argument.", ""))
            /\ pc' = "done"
            /\ exitStatus' = 1
            /\ UNCHANGED query
       ELSE /\ query' = JStr(argv[Len(argv)])
            /\ pc' = "q_init_model"
            /\ UNCHANGED << stderr, exitStatus >>
    /\ UNCHANGED << script, argv, files, papers, model, abstracts, embeddings, i,
                    stdout, raised, encodeCalls >>

\* Lines 13-17: without a query argument, complain and exit with status 1.
CheckArgs ==
    /\ script = "embed_query"
    /\ pc = "q_args"
    /\ IF Len(argv) < 2
       THEN /\ stderr' = Append(stderr,
                  Line("Error: No query provided. Please pass the query as an argument.", ""))
            /\ pc' = "done"
            /\ exitStatus' = 1
            /\ UNCHANGED query
       ELSE /\ query' = JStr(argv[2])
            /\ pc' = "q_init_model"
            /\ UNCHANGED << stderr, exitStatus >>
    /\ UNCHANGED << script, argv, files, papers, model, abstracts, embeddings, i,
                    stdout, raised, encodeCalls >>

\* Line 19: model = SentenceTransformer(MODEL_NAME); loading may fail.
QueryInitModel ==
    /\ script = "embed_query"
    /\ pc = "q_init_model"
    /\ \/ /\ model' = [t |-> "model", name |-> MODEL_NAME]
          /\ pc' = "q_encode"
          /\ UNCHANGED << stderr, exitStatus, raised >>
       \/ /\ Raise("OSError")
          /\ UNCHANGED model
    /\ UNCHANGED << script, argv, files, papers, abstracts, embeddings, i, query,
                    stdout, encodeCalls >>

\* Line 21: embedding = model.encode(query, normalize_embeddings=True).
QueryEncode ==
    /\ script = "embed_query"
    /\ pc = "q_encode"
    /\ encodeCalls' = Append(encodeCalls,
                             [sentences |-> query, normalize_embeddings |-> TRUE])
    /\ \/ /\ embeddings' = EncodeResult(query, TRUE)
          /\ pc' = "q_print"
          /\ UNCHANGED << stderr, exitStatus, raised >>
       \/ /\ Raise("RuntimeError")
          /\ UNCHANGED embeddings
    /\ UNCHANGED << script, argv, files, papers, model, abstracts, i, query, stdout >>

\* json.dumps(value) on one line of standard output.
JsonLine(value) == [json |-> value]

\* Line 23: print(json.dumps(embedding.tolist())), then the script ends.
QueryPrint ==
    /\ script = "embed_query"
    /\ pc = "q_print"
    /\ stdout' = Append(stdout, JsonLine(ToList(embeddings)))
    /\ Return
    /\ UNCHANGED << script, argv, files, locals, encodeCalls >>

Next ==
    \/ LoadInput
    \/ CheckPapers
    \/ InitModel
    \/ SelectTexts
    \/ Encode
    \/ AttachEmbedding
    \/ OpenOutput
    \/ DumpOutput
    \/ CheckArgs
    \/ QueryInitModel
    \/ QueryEncode
    \/ QueryPrint

Spec == Init /\ [][Next]_vars

\* -------------------------------------------------------------- properties

Batch == script = "create_embeddings"

\* The run went through line 51 and returned.
Succeeded == Batch /\ pc = "done" /\ raised = "none" /\ outOpens = 1

\* The input document is an object whose "papers" is a non-empty array.
HasPapers ==
    /\ inFile.kind = "json"
    /\ inFile.value.t = "object"
    /\ "papers" \in DOMAIN inFile.value.members
    /\ inFile.value.members.papers.t = "list"
    /\ inFile.value.members.papers.items # <<>>

\* The records of the input file, and of the output file once it is written.
InputPapers == inFile.value.members.papers.items

OutputPapers == outFile.value.members.papers.items

\* The input parses as JSON and holds no papers: the top level is no object,
\* or "papers" is missing, null or the empty array.
LacksPapers ==
    /\ inFile.kind = "json"
    /\ \/ inFile.value.t # "object"
       \/ "papers" \notin DOMAIN inFile.value.members
       \/ inFile.value.members.papers = JNull
       \/ inFile.value.members.papers = JList(<<>>)

NoPapersReported ==
    \E n \in 1..Len(stdout) : stdout[n].text = "Error: No papers found in the input file."

\* C1 (as claimed): every text submitted to the model is the record's abstract
\* if that is a non-empty string, else the record's title, else the empty
\* string; whatever the record holds, the text is a string.
C1_SelectedTextIsString ==
    Batch =>
        \A c \in 1..Len(encodeCalls) :
            /\ Len(encodeCalls[c].sentences.items) = Len(InputPapers)
            /\ \A k \in 1..Len(InputPapers) :
                 LET p    == InputPapers[k]
                     text == encodeCalls[c].sentences.items[k]
                     hasAbstract == /\ "abstract" \in DOMAIN p
                                    /\ p.abstract.t = "str"
                                    /\ p.abstract.str # ""
                     hasTitle == "title" \in DOMAIN p /\ p.title.t = "str"
                 IN  /\ text.t = "str"
                     /\ hasAbstract => text = p.abstract
                     /\ ~hasAbstract /\ hasTitle => text = p.title
                     /\ ~hasAbstract /\ ~hasTitle => text = JStr("")

\* C2: after a successful run every output record k carries abstract_embedding,
\* and it is the list form of the vector the model returned at position k for
\* the text selected from input record k, also when the input record already
\* carried an abstract_embedding.
C2_VectorOfRecord ==
    Succeeded =>
        /\ Len(encodeCalls) = 1
        /\ \A k \in 1..Len(OutputPapers) :
             /\ "abstract_embedding" \in DOMAIN OutputPapers[k]
             /\ LET e == OutputPapers[k].abstract_embedding
                IN  /\ e.t = "list"
                    /\ e.row = k
                    /\ e.of = encodeCalls[1].sentences.items[k]
                    /\ e.of = SelectText(InputPapers[k])
                    /\ e.unit = embeddings.rows[k].unit

C2_Witness ==
    /\ Succeeded
    /\ Len(InputPapers) = 2
    /\ "abstract_embedding" \in DOMAIN InputPapers[2]
    /\ SelectText(InputPapers[1]) = SelectText(InputPapers[2])

\* C3: a run that completes writes as many records as it read, and record k of
\* the output is record k of the input (the embedding field aside).
C3_SameRecordsSameOrder ==
    Succeeded =>
        /\ Len(OutputPapers) = Len(InputPapers)
        /\ \A k \in 1..Len(InputPapers) :
             [f \in DOMAIN OutputPapers[k] \ {"abstract_embedding"} |-> OutputPapers[k][f]]
               = [f \in DOMAIN InputPapers[k] \ {"abstract_embedding"} |-> InputPapers[k][f]]

C3_Witness ==
    /\ Succeeded
    /\ Len(InputPapers) = 2
    /\ InputPapers[1] # InputPapers[2]
    /\ "abstract" \notin DOMAIN InputPapers[1]

\* C4: with no input file the run prints its diagnostic and returns (exit
\* status 0, nothing raised); at no point has it opened or changed the output
\* path, loaded the model or called it.
C4_MissingInput ==
    (Batch /\ inFile.kind = "missing") =>
        /\ pc \in {"load", "done"}
        /\ outOpens = 0
        /\ outFile = outBefore
        /\ model = Unbound
        /\ encodeCalls = <<>>
        /\ pc = "done" =>
             /\ raised = "none"
             /\ exitStatus = 0
             /\ \E n \in 1..Len(stdout) : stdout[n].text = "Error: Input file not found at"

C4_Witness ==
    /\ Batch
    /\ inFile.kind = "missing"
    /\ pc = "done"
    /\ outBefore = OldOutput

\* C5 (as claimed): whenever the input parses and holds no papers, top level
\* that is no object included, the run reports it, raises nothing and leaves
\* the output path alone.
C5_NoPapersAlwaysReported ==
    (Batch /\ LacksPapers /\ pc = "done") =>
        /\ NoPapersReported
        /\ raised = "none"
        /\ exitStatus = 0
        /\ outFile = outBefore
        /\ outOpens = 0

\* C5 (amended): when the input is a JSON object whose "papers" is missing,
\* null or empty, the run reports it, returns without raising and touches
\* neither the output path nor the model; when the top level is no object the
\* run ends with an uncaught AttributeError (exit status 1, nothing reported),
\* again without touching the output path or the model.
C5_NoPapers ==
    (Batch /\ LacksPapers) =>
        /\ outOpens = 0
        /\ outFile = outBefore
        /\ model = Unbound
        /\ encodeCalls = <<>>
        /\ pc \in {"load", "check", "done"}
        /\ pc = "done" =>
             IF inFile.value.t = "object"
             THEN NoPapersReported /\ raised = "none" /\ exitStatus = 0
             ELSE ~NoPapersReported /\ raised = "AttributeError" /\ exitStatus = 1

C5_Witness ==
    /\ Batch
    /\ pc = "done"
    /\ inFile.kind = "json"
    /\ inFile.value.t = "object"
    /\ "papers" \in DOMAIN inFile.value.members
    /\ inFile.value.members.papers = JList(<<>>)
    /\ NoPapersReported
    /\ outBefore = OldOutput

\* C6 (as claimed): however a run ends, the output path is as it was before
\* the run or holds the complete collection, never a truncated file.
C6_NoPartialOutput ==
    (Batch /\ pc = "done") =>
        \/ outFile = outBefore
        \/ /\ outFile.kind = "json"
           /\ Len(OutputPapers) = Len(InputPapers)

\* C7: without a query argument the run writes one error line to the error
\* stream and nothing to standard output, exits with status 1, and has neither
\* loaded nor called the model.
C7_MissingArgument ==
    (script = "embed_query" /\ Len(argv) < 2) =>
        /\ pc \in {"q_args", "done"}
        /\ stdout = <<>>
        /\ model = Unbound
        /\ encodeCalls = <<>>
        /\ pc = "done" =>
             /\ exitStatus = 1
             /\ Len(stderr) = 1
             /\ stderr[1].text
                  = "Error: No query provided. Please pass the query as an argument."

C7_Witness ==
    /\ script = "embed_query"
    /\ Len(argv) < 2
    /\ pc = "done"

\* C8 (as claimed): the exit status is 1 exactly when the argument is missing;
\* every run with an argument ends with status 0 and one line on standard
\* output, the embedding of the first argument.
C8_StatusZeroWithArgument ==
    (script = "embed_query" /\ pc = "done") =>
        /\ exitStatus = 1 <=> Len(argv) < 2
        /\ Len(argv) >= 2 =>
             /\ exitStatus = 0
             /\ Len(stdout) = 1
             /\ stdout[1].json.of = JStr(argv[2])

\* C8 (amended): the exit status is 1 when the argument is missing; a run with
\* an argument in which loading the model and encoding succeed ends with
\* status 0 after writing exactly one line, the list form of the normalized
\* embedding of the first argument; a run in which either raises ends with
\* status 1 and nothing on standard output.
C8_ExitStatus ==
    (script = "embed_query" /\ pc = "done") =>
        /\ Len(argv) < 2 => exitStatus = 1
        /\ (Len(argv) >= 2 /\ raised = "none") =>
             /\ exitStatus = 0
             /\ Len(stdout) = 1
             /\ stdout[1].json.t = "list"
             /\ stdout[1].json.of = JStr(argv[2])
             /\ stdout[1].json.unit
        /\ (Len(argv) >= 2 /\ raised # "none") =>
             /\ exitStatus = 1
             /\ stdout = <<>>

C8_Witness ==
    /\ script = "embed_query"
    /\ pc = "done"
    /\ Len(argv) = 3
    /\ argv[2] = ""
    /\ argv[3] # ""
    /\ exitStatus = 0

\* C9: a successful run changes nothing of a record but abstract_embedding:
\* every other field is present in the output record exactly if it is in the
\* input record, with the same value; the output's top level is an object
\* with the single key "papers".
C9_OtherFieldsUntouched ==
    Succeeded =>
        /\ outFile.kind = "json"
        /\ outFile.value.t = "object"
        /\ DOMAIN outFile.value.members = {"papers"}
        /\ \A k \in 1..Len(InputPapers) :
             \A f \in (DOMAIN InputPapers[k] \cup DOMAIN OutputPapers[k])
                        \ {"abstract_embedding"} :
                /\ f \in DOMAIN InputPapers[k]
                /\ f \in DOMAIN OutputPapers[k]
                /\ OutputPapers[k][f] = InputPapers[k][f]

C9_Witness ==
    /\ Succeeded
    /\ "meta" \in DOMAIN inFile.value.members
    /\ {"title", "abstract", "year", "abstract_embedding"} \subseteq DOMAIN InputPapers[1]

\* C10: the model is called at most once, with the texts of all records in
\* record order and normalization requested, and only once the input is loaded
\* and found non-empty; the output path is opened for writing at most once,
\* only after that call returned and every record received its vector.
C10_OneCallBeforeOutput ==
    Batch =>
        /\ Len(encodeCalls) <= 1
        /\ outOpens <= 1
        /\ \A c \in 1..Len(encodeCalls) :
             /\ HasPapers
             /\ pc \notin {"load", "check", "init_model", "select"}
             /\ encodeCalls[c].normalize_embeddings
             /\ encodeCalls[c].sentences.t = "list"
             /\ Len(encodeCalls[c].sentences.items) = Len(InputPapers)
             /\ \A k \in 1..Len(InputPapers) :
                  encodeCalls[c].sentences.items[k] = SelectText(InputPapers[k])
        /\ outOpens > 0 =>
             /\ Len(encodeCalls) = 1
             /\ embeddings # Unbound
             /\ Len(papers.items) = Len(InputPapers)
             /\ \A k \in 1..Len(papers.items) :
                  /\ "abstract_embedding" \in DOMAIN papers.items[k]
                  /\ papers.items[k].abstract_embedding.row = k
                  /\ papers.items[k].abstract_embedding.of = embeddings.rows[k].of

C10_Witness ==
    /\ Batch
    /\ pc = "dump"
    /\ outOpens = 1
    /\ Len(papers.items) = 2

====
